---- MODULE Spec2Model ----
(***************************************************************************)
(* Copilot Terminal: the token lifecycle (storage.ts, copilot.ts), the     *)
(* device-flow polling loop (auth.ts) and the session log (session.ts).    *)
(*                                                                         *)
(* Three state machines share the variables below:                         *)
(*   Spec         the credential blob, the service token broker and        *)
(*                getCommandSuggestion;                                    *)
(*   SessionSpec  the in-memory session, its file and getSessionContext;   *)
(*   PollSpec     pollForToken (PollFairSpec adds the scheduler's          *)
(*                fairness).                                               *)
(* File-system primitives are taken as reliable: a write stores what it    *)
(* is given and a read returns the last write.                             *)
(***************************************************************************)
EXTENDS Integers, Sequences, FiniteSets, TLC

VARIABLES
    tokenFile,      \* token.json: absent, unparseable, or a JSON object
    now,            \* the wall clock read by `new Date()`, in milliseconds
    calls,          \* HTTP calls issued by the most recent operation, in order
    result,         \* outcome of the most recent operation
    lastOp,         \* name of the most recent operation (or outside event)
    suggest,        \* where getCommandSuggestion is, and its arguments
    procs,          \* processes sharing token.json: where each is in its store operation
    issued,         \* pairs << identity token, service token >> the token endpoint answered with
    session,        \* the in-memory SessionData
    sessionFile,    \* the persisted copy of the session
    clock,          \* the last value Date.now() returned to the session code
    clockMonotone,  \* FALSE once Date.now() has stepped backwards
    context,        \* what the most recent getSessionContext call returned
    sessionOp,      \* name of the most recent session function called
    pollPc,         \* where pollForToken is
    pollResp,       \* the response the current attempt received
    pollTrace,      \* attempts and waits of pollForToken so far, in order
    pollInFlight,   \* token-exchange requests currently in flight
    pollResult,     \* what pollForToken returned
    pollInterval    \* the `interval` argument of pollForToken, in seconds

vars ==
    << tokenFile, now, calls, result, lastOp, suggest, procs, issued, session, sessionFile, clock,
       clockMonotone, context, sessionOp, pollPc, pollResp, pollTrace, pollInFlight,
       pollResult, pollInterval >>

tokenVars == << tokenFile, now, calls, result, lastOp, suggest, procs, issued >>

sessionVars == << session, sessionFile, clock, clockMonotone, context, sessionOp >>

pollVars == << pollPc, pollResp, pollTrace, pollInFlight, pollResult, pollInterval >>

----------------------------------------------------------------------------
(* Bounds of the model.                                                    *)

\* Largest clock reading and expiry, in seconds.
MaxSec == 2

----------------------------------------------------------------------------
(* Strings the code compares by content are sequences of characters.       *)

\* 'GitHub access token expired or invalid'
MsgGithubExpired ==
    << "G", "i", "t", "H", "u", "b", " ", "a", "c", "c", "e", "s", "s", " ", "t", "o", "k",
       "e", "n", " ", "e", "x", "p", "i", "r", "e", "d", " ", "o", "r", " ", "i", "n", "v",
       "a", "l", "i", "d" >>

\* 'Rate limit exceeded. Please try again later.'
MsgTokenRateLimit ==
    << "R", "a", "t", "e", " ", "l", "i", "m", "i", "t", " ", "e", "x", "c", "e", "e", "d",
       "e", "d", ".", " ", "P", "l", "e", "a", "s", "e", " ", "t", "r", "y", " ", "a", "g",
       "a", "i", "n", " ", "l", "a", "t", "e", "r", "." >>

\* 'GitHub service is currently unavailable. Please try again later.'
MsgTokenUnavailable ==
    << "G", "i", "t", "H", "u", "b", " ", "s", "e", "r", "v", "i", "c", "e", " ", "i", "s",
       " ", "c", "u", "r", "r", "e", "n", "t", "l", "y", " ", "u", "n", "a", "v", "a", "i",
       "l", "a", "b", "l", "e", ".", " ", "P", "l", "e", "a", "s", "e", " ", "t", "r", "y",
       " ", "a", "g", "a", "i", "n", " ", "l", "a", "t", "e", "r", "." >>

\* 'Unable to authenticate with GitHub Copilot.'
MsgTokenUnable ==
    << "U", "n", "a", "b", "l", "e", " ", "t", "o", " ", "a", "u", "t", "h", "e", "n", "t",
       "i", "c", "a", "t", "e", " ", "w", "i", "t", "h", " ", "G", "i", "t", "H", "u", "b",
       " ", "C", "o", "p", "i", "l", "o", "t", "." >>

\* 'Copilot token expired or invalid'
MsgCopilotExpired ==
    << "C", "o", "p", "i", "l", "o", "t", " ", "t", "o", "k", "e", "n", " ", "e", "x", "p",
       "i", "r", "e", "d", " ", "o", "r", " ", "i", "n", "v", "a", "l", "i", "d" >>

\* 'You have reached your Copilot usage limit. Please try again later.'
MsgUsageLimit ==
    << "Y", "o", "u", " ", "h", "a", "v", "e", " ", "r", "e", "a", "c", "h", "e", "d", " ",
       "y", "o", "u", "r", " ", "C", "o", "p", "i", "l", "o", "t", " ", "u", "s", "a", "g",
       "e", " ", "l", "i", "m", "i", "t", ".", " ", "P", "l", "e", "a", "s", "e", " ", "t",
       "r", "y", " ", "a", "g", "a", "i", "n", " ", "l", "a", "t", "e", "r", "." >>

\* 'GitHub Copilot service is currently unavailable. Please try again later.'
MsgCopilotUnavailable ==
    << "G", "i", "t", "H", "u", "b", " ", "C", "o", "p", "i", "l", "o", "t", " ", "s", "e",
       "r", "v", "i", "c", "e", " ", "i", "s", " ", "c", "u", "r", "r", "e", "n", "t", "l",
       "y", " ", "u", "n", "a", "v", "a", "i", "l", "a", "b", "l", "e", ".", " ", "P", "l",
       "e", "a", "s", "e", " ", "t", "r", "y", " ", "a", "g", "a", "i", "n", " ", "l", "a",
       "t", "e", "r", "." >>

\* 'Invalid request to Copilot. Please try a different prompt.'
MsgInvalidRequest ==
    << "I", "n", "v", "a", "l", "i", "d", " ", "r", "e", "q", "u", "e", "s", "t", " ", "t",
       "o", " ", "C", "o", "p", "i", "l", "o", "t", ".", " ", "P", "l", "e", "a", "s", "e",
       " ", "t", "r", "y", " ", "a", " ", "d", "i", "f", "f", "e", "r", "e", "n", "t", " ",
       "p", "r", "o", "m", "p", "t", "." >>

\* 'Unable to get a response from GitHub Copilot.'
MsgNoResponse ==
    << "U", "n", "a", "b", "l", "e", " ", "t", "o", " ", "g", "e", "t", " ", "a", " ", "r",
       "e", "s", "p", "o", "n", "s", "e", " ", "f", "r", "o", "m", " ", "G", "i", "t", "H",
       "u", "b", " ", "C", "o", "p", "i", "l", "o", "t", "." >>

\* 'No command suggestion received'
MsgNoSuggestion ==
    << "N", "o", " ", "c", "o", "m", "m", "a", "n", "d", " ", "s", "u", "g", "g", "e", "s",
       "t", "i", "o", "n", " ", "r", "e", "c", "e", "i", "v", "e", "d" >>

\* 'Network error: Unable to connect to GitHub Copilot. Please check your internet connection.'
MsgNetwork ==
    << "N", "e", "t", "w", "o", "r", "k", " ", "e", "r", "r", "o", "r", ":", " ", "U", "n",
       "a", "b", "l", "e", " ", "t", "o", " ", "c", "o", "n", "n", "e", "c", "t", " ", "t",
       "o", " ", "G", "i", "t", "H", "u", "b", " ", "C", "o", "p", "i", "l", "o", "t", ".",
       " ", "P", "l", "e", "a", "s", "e", " ", "c", "h", "e", "c", "k", " ", "y", "o", "u",
       "r", " ", "i", "n", "t", "e", "r", "n", "e", "t", " ", "c", "o", "n", "n", "e", "c",
       "t", "i", "o", "n", "." >>

\* 'GitHub Copilot service error. Please try again in a few moments.'
MsgServiceError ==
    << "G", "i", "t", "H", "u", "b", " ", "C", "o", "p", "i", "l", "o", "t", " ", "s", "e",
       "r", "v", "i", "c", "e", " ", "e", "r", "r", "o", "r", ".", " ", "P", "l", "e", "a",
       "s", "e", " ", "t", "r", "y", " ", "a", "g", "a", "i", "n", " ", "i", "n", " ", "a",
       " ", "f", "e", "w", " ", "m", "o", "m", "e", "n", "t", "s", "." >>

\* 'Copilot was unable to generate a command for your request. Please try rephrasing.'
MsgRephrase ==
    << "C", "o", "p", "i", "l", "o", "t", " ", "w", "a", "s", " ", "u", "n", "a", "b", "l",
       "e", " ", "t", "o", " ", "g", "e", "n", "e", "r", "a", "t", "e", " ", "a", " ", "c",
       "o", "m", "m", "a", "n", "d", " ", "f", "o", "r", " ", "y", "o", "u", "r", " ", "r",
       "e", "q", "u", "e", "s", "t", ".", " ", "P", "l", "e", "a", "s", "e", " ", "t", "r",
       "y", " ", "r", "e", "p", "h", "r", "a", "s", "i", "n", "g", "." >>

\* 'Unable to get command suggestion from GitHub Copilot. Please try again.'
MsgGeneric ==
    << "U", "n", "a", "b", "l", "e", " ", "t", "o", " ", "g", "e", "t", " ", "c", "o", "m",
       "m", "a", "n", "d", " ", "s", "u", "g", "g", "e", "s", "t", "i", "o", "n", " ", "f",
       "r", "o", "m", " ", "G", "i", "t", "H", "u", "b", " ", "C", "o", "p", "i", "l", "o",
       "t", ".", " ", "P", "l", "e", "a", "s", "e", " ", "t", "r", "y", " ", "a", "g", "a",
       "i", "n", "." >>

\* 'fetch'
NeedleFetch ==
    << "f", "e", "t", "c", "h" >>

\* 'Copilot API error'
NeedleApiError ==
    << "C", "o", "p", "i", "l", "o", "t", " ", "A", "P", "I", " ", "e", "r", "r", "o", "r" >>

\* 'No command suggestion'
NeedleNoSuggestion ==
    << "N", "o", " ", "c", "o", "m", "m", "a", "n", "d", " ", "s", "u", "g", "g", "e", "s",
       "t", "i", "o", "n" >>

\* 'fetch failed'
MsgFetchFailed ==
    << "f", "e", "t", "c", "h", " ", "f", "a", "i", "l", "e", "d" >>

\* 'request to https://api.githubcopilot.com/chat/completions failed, reason: connect ECONNREFUSED'
MsgRequestFailed ==
    << "r", "e", "q", "u", "e", "s", "t", " ", "t", "o", " ", "h", "t", "t", "p", "s", ":",
       "/", "/", "a", "p", "i", ".", "g", "i", "t", "h", "u", "b", "c", "o", "p", "i", "l",
       "o", "t", ".", "c", "o", "m", "/", "c", "h", "a", "t", "/", "c", "o", "m", "p", "l",
       "e", "t", "i", "o", "n", "s", " ", "f", "a", "i", "l", "e", "d", ",", " ", "r", "e",
       "a", "s", "o", "n", ":", " ", "c", "o", "n", "n", "e", "c", "t", " ", "E", "C", "O",
       "N", "N", "R", "E", "F", "U", "S", "E", "D" >>
\* String.prototype.includes on character sequences.
Includes(s, sub) ==
    \E i \in 1..(Len(s) - Len(sub) + 1) : SubSeq(s, i, i + Len(sub) - 1) = sub

IsSpace(c) == c \in {" ", "\n", "\t"}

RECURSIVE TrimStart(_)
TrimStart(s) ==
    IF s = << >> THEN << >>
    ELSE IF IsSpace(Head(s)) THEN TrimStart(Tail(s)) ELSE s

RECURSIVE TrimEnd(_)
TrimEnd(s) ==
    IF s = << >> THEN << >>
    ELSE IF IsSpace(s[Len(s)]) THEN TrimEnd(SubSeq(s, 1, Len(s) - 1)) ELSE s

\* String.prototype.trim
Trim(s) == TrimEnd(TrimStart(s))

----------------------------------------------------------------------------
(* The credential blob (storage.ts).                                       *)

\* `undefined` / a key the JSON object does not hold / `null`.
NoValue == "<undefined>"

\* One second in milliseconds: `new Date(Number(x) * 1000)`.
MsPerSec == 1000

GithubTokens == {"gh1", "gh2"}

CopilotTokens == {"cp1", "cp2"}

\* A value of expires_at / copilotTokenExpiresAt:
\*   undefined  the key is missing
\*   sec        a number of seconds since the epoch
\*   iso        a string `new Date` parses, t being its time in milliseconds
\*   bad        a non-empty string `new Date` does not parse
NoExpiry == [kind |-> "undefined", t |-> 0]

Expiries ==
    {NoExpiry, [kind |-> "bad", t |-> 0]}
        \cup {[kind |-> "sec", t |-> s] : s \in 0..MaxSec}
        \cup {[kind |-> "iso", t |-> s * MsPerSec] : s \in 0..MaxSec}

\* JavaScript truthiness of a string or undefined.
Truthy(s) == s /= NoValue /\ s /= ""

\* JavaScript truthiness of an expiry value: undefined and the number 0 are falsy.
ExpiryTruthy(e) ==
    CASE e.kind = "undefined" -> FALSE
      [] e.kind = "sec" -> e.t /= 0
      [] OTHER -> TRUE

InvalidDate == [valid |-> FALSE, ms |-> 0]

\* The Date the storage builds from a stored expiry.
ToDate(e) ==
    CASE e.kind = "iso" -> [valid |-> TRUE, ms |-> e.t]
      [] e.kind = "sec" -> [valid |-> TRUE, ms |-> e.t * MsPerSec]
      [] OTHER -> InvalidDate

\* `a > b` on Dates: a comparison with an Invalid Date (NaN) is false.
DateAfter(d, nowMs) == d.valid /\ d.ms > nowMs

AbsentFile ==
    [state |-> "absent", githubToken |-> NoValue, copilotToken |-> NoValue,
     copilotTokenExpiresAt |-> NoExpiry]

CorruptFile ==
    [state |-> "corrupt", githubToken |-> NoValue, copilotToken |-> NoValue,
     copilotTokenExpiresAt |-> NoExpiry]

JsonFile(g, c, e) ==
    [state |-> "json", githubToken |-> g, copilotToken |-> c,
     copilotTokenExpiresAt |-> e]

\* saveTokens that writes its arguments without reading the existing blob.
SaveTokensOverwrite(file, githubToken, copilotToken, expiresAt) ==
    IF Truthy(copilotToken) THEN JsonFile(githubToken, copilotToken, expiresAt)
    ELSE JsonFile(githubToken, NoValue, NoExpiry)

SaveTokens(file, githubToken, copilotToken, expiresAt) ==
    LET existing == IF file.state = "json" THEN file
                    ELSE JsonFile(githubToken, NoValue, NoExpiry)
        withGithub == [existing EXCEPT !.githubToken = githubToken]
    IN  IF Truthy(copilotToken)
        THEN [withGithub EXCEPT !.copilotToken = copilotToken,
                                !.copilotTokenExpiresAt = expiresAt]
        ELSE withGithub

SaveToken(file, token) == SaveTokens(file, token, NoValue, NoExpiry)

GetToken(file) ==
    IF file.state = "json" /\ Truthy(file.githubToken) THEN file.githubToken
    ELSE NoValue

\* saveCopilotToken without its `if (githubToken)` test.
SaveCopilotTokenUnguarded(file, token, expiresAt) ==
    SaveTokens(file, GetToken(file), token, expiresAt)

SaveCopilotToken(file, token, expiresAt) ==
    LET githubToken == GetToken(file)
    IN  IF Truthy(githubToken) THEN SaveTokens(file, githubToken, token, expiresAt)
        ELSE file

NoStoredToken == [found |-> FALSE, token |-> NoValue, expiresAt |-> InvalidDate]

GetStoredCopilotToken(file) ==
    IF /\ file.state = "json"
       /\ Truthy(file.copilotToken)
       /\ ExpiryTruthy(file.copilotTokenExpiresAt)
    THEN [found |-> TRUE, token |-> file.copilotToken,
          expiresAt |-> ToDate(file.copilotTokenExpiresAt)]
    ELSE NoStoredToken

ClearToken(file) == AbsentFile

\* clearCopilotToken that leaves the blob as it is.
ClearCopilotTokenNoOp(file) == file

ClearCopilotToken(file) ==
    IF file.state = "json"
    THEN [file EXCEPT !.copilotToken = NoValue, !.copilotTokenExpiresAt = NoExpiry]
    ELSE file

----------------------------------------------------------------------------
(* HTTP responses the two endpoints can give.                              *)

\* status 0 stands for a transport failure: fetch rejects with `netMessage`.
NetErrorMessages == {MsgFetchFailed, MsgRequestFailed}

FailureStatuses == {400, 401, 403, 404, 429, 500, 503}

\* A 2xx answer of the token endpoint holds {token, expires_at}.
TokenResponses ==
    {[status |-> 0, netMessage |-> m, token |-> NoValue, expires_at |-> NoExpiry] :
        m \in NetErrorMessages}
    \cup {[status |-> s, netMessage |-> << >>, token |-> NoValue, expires_at |-> NoExpiry] :
        s \in FailureStatuses}
    \cup {[status |-> 200, netMessage |-> << >>, token |-> t, expires_at |-> e] :
        t \in CopilotTokens, e \in Expiries \ {NoExpiry}}

\* choices[0]?.message.content: no first choice, or its content.
Contents == {<< >>, << " " >>, << "l", "s" >>, << " ", "l", "s", "\n" >>}

CompletionResponses ==
    {[status |-> 0, netMessage |-> m, hasChoice |-> FALSE, content |-> << >>] :
        m \in NetErrorMessages}
    \cup {[status |-> s, netMessage |-> << >>, hasChoice |-> FALSE, content |-> << >>] :
        s \in FailureStatuses}
    \cup {[status |-> 200, netMessage |-> << >>, hasChoice |-> FALSE, content |-> << >>]}
    \cup {[status |-> 200, netMessage |-> << >>, hasChoice |-> TRUE, content |-> c] :
        c \in Contents}

\* response.ok
Ok(status) == status >= 200 /\ status <= 299

----------------------------------------------------------------------------
(* The service token broker and getCommandSuggestion (copilot.ts).         *)

NoError == [errClass |-> "none", tokenType |-> "none", message |-> << >>]

\* new Error(message)
PlainError(message) == [errClass |-> "Error", tokenType |-> "none", message |-> message]

\* new TokenExpiredError(message, tokenType)
TokenExpiredError(message, tokenType) ==
    [errClass |-> "TokenExpiredError", tokenType |-> tokenType, message |-> message]

\* A call in flight has status Pending; status 0 is a transport failure.
Pending == -1

\* What the log keeps of the body of an answer: the first choice's content.
NoReply == [hasChoice |-> FALSE, content |-> << >>]

TokenCall(accessToken) ==
    [endpoint |-> "token", auth |-> accessToken, status |-> Pending, messages |-> << >>,
     reply |-> NoReply]

CompletionCall(copilotToken, messages) ==
    [endpoint |-> "completion", auth |-> copilotToken, status |-> Pending,
     messages |-> messages, reply |-> NoReply]

\* The answer `status` arrives for the last call of `log`.
Answered(log, status) == [log EXCEPT ![Len(log)].status = status]

\* The cache test with `>=` for `>`.
CacheHitAtOrAfter(stored, nowMs) ==
    stored.found /\ stored.expiresAt.valid /\ stored.expiresAt.ms >= nowMs

\* The cache test of getCopilotToken: `storedToken && storedToken.expiresAt > new Date()`.
CacheHit(stored, nowMs) == stored.found /\ DateAfter(stored.expiresAt, nowMs)

\* The error the broker throws for a non-2xx answer of the token endpoint.
TokenEndpointError(status) ==
    IF status = 401 \/ status = 403 THEN TokenExpiredError(MsgGithubExpired, "github")
    ELSE IF status = 429 THEN PlainError(MsgTokenRateLimit)
    ELSE IF status >= 500 THEN PlainError(MsgTokenUnavailable)
    ELSE PlainError(MsgTokenUnable)

\* getCopilotToken(accessToken) up to its fetch: the token it returns from the
\* cache, or none when it has to ask the token endpoint.
CachedToken(file, nowMs) ==
    LET stored == GetStoredCopilotToken(file)
    IN  IF CacheHit(stored, nowMs) THEN stored.token ELSE NoValue

\* getCopilotToken after its fetch without the test of response.ok.
RefreshTokenUnchecked(file, resp) ==
    IF resp.status = 0
    THEN [file |-> file, threw |-> TRUE, token |-> NoValue,
          error |-> PlainError(resp.netMessage)]
    ELSE [file |-> SaveCopilotToken(file, resp.token, resp.expires_at),
          threw |-> FALSE, token |-> resp.token, error |-> NoError]

\* getCopilotToken(accessToken) after its fetch: the file it leaves, and the
\* token it returns or the error it throws.
RefreshToken(file, resp) ==
    IF resp.status = 0
    THEN [file |-> file, threw |-> TRUE, token |-> NoValue,
          error |-> PlainError(resp.netMessage)]
    ELSE IF ~Ok(resp.status)
    THEN [file |-> IF resp.status = 401 \/ resp.status = 403
                   THEN ClearCopilotToken(file) ELSE file,
          threw |-> TRUE, token |-> NoValue, error |-> TokenEndpointError(resp.status)]
    ELSE [file |-> SaveCopilotToken(file, resp.token, resp.expires_at),
          threw |-> FALSE, token |-> resp.token, error |-> NoError]

\* The error getCommandSuggestion throws for a non-2xx answer of the completion endpoint.
CompletionEndpointError(status) ==
    IF status = 401 \/ status = 403 THEN TokenExpiredError(MsgCopilotExpired, "copilot")
    ELSE IF status = 429 THEN PlainError(MsgUsageLimit)
    ELSE IF status >= 500 THEN PlainError(MsgCopilotUnavailable)
    ELSE IF status = 400 THEN PlainError(MsgInvalidRequest)
    ELSE PlainError(MsgNoResponse)

\* A catch block without its `instanceof TokenExpiredError` branch.
TranslateAll(error) == PlainError(MsgGeneric)

\* The catch block of getCommandSuggestion.
TranslateError(error) ==
    IF error.errClass = "TokenExpiredError" THEN error
    ELSE IF Includes(error.message, NeedleFetch) THEN PlainError(MsgNetwork)
    ELSE IF Includes(error.message, NeedleApiError) THEN PlainError(MsgServiceError)
    ELSE IF Includes(error.message, NeedleNoSuggestion) THEN PlainError(MsgRephrase)
    ELSE PlainError(MsgGeneric)

Returned(value) ==
    [kind |-> "returned", value |-> value, errClass |-> "none", tokenType |-> "none",
     message |-> << >>]

Threw(error) ==
    [kind |-> "threw", value |-> << >>, errClass |-> error.errClass,
     tokenType |-> error.tokenType, message |-> error.message]

NoResult ==
    [kind |-> "none", value |-> << >>, errClass |-> "none", tokenType |-> "none",
     message |-> << >>]

Prompts == {"list files", "disk usage"}

\* sessionContext: omitted, empty, or the beginning of a rendered context.
SessionContexts == {NoValue, "", "Previous commands:\n\n"}

SystemContent(sessionContext) ==
    sessionContext
        \o "\n\nYou are a command-line assistant. Generate accurate terminal commands based on user requests. Consider the context of previous commands when applicable."

UserContent(prompt) ==
    "Generate a terminal command for: " \o prompt
        \o "\nProvide only the command, no explanation."

\* The messages array with the system message pushed whatever sessionContext is.
MessagesAlwaysSystem(prompt, sessionContext) ==
    << [role |-> "system",
        content |-> SystemContent(IF sessionContext = NoValue THEN "undefined"
                                  ELSE sessionContext)],
       [role |-> "user", content |-> UserContent(prompt)] >>

\* The messages array of the completion request.
Messages(prompt, sessionContext) ==
    (IF Truthy(sessionContext)
     THEN << [role |-> "system", content |-> SystemContent(sessionContext)] >>
     ELSE << >>)
        \o << [role |-> "user", content |-> UserContent(prompt)] >>

\* getCommandSuggestion that takes the content as it comes, without trim().
CompletionOutcomeNoTrim(file, resp) ==
    LET suggestion == IF resp.hasChoice THEN resp.content ELSE << >>
    IN  IF resp.status = 0
        THEN [file |-> file, result |-> Threw(TranslateError(PlainError(resp.netMessage)))]
        ELSE IF ~Ok(resp.status)
        THEN [file |-> IF resp.status = 401 \/ resp.status = 403
                       THEN ClearCopilotToken(file) ELSE file,
              result |-> Threw(TranslateError(CompletionEndpointError(resp.status)))]
        ELSE IF suggestion = << >>
        THEN [file |-> file, result |-> Threw(TranslateError(PlainError(MsgNoSuggestion)))]
        ELSE [file |-> file, result |-> Returned(suggestion)]

\* getCommandSuggestion after the fetch of the completion: the file it leaves
\* and its outcome.
CompletionOutcome(file, resp) ==
    LET suggestion == IF resp.hasChoice THEN Trim(resp.content) ELSE << >>
    IN  IF resp.status = 0
        THEN [file |-> file, result |-> Threw(TranslateError(PlainError(resp.netMessage)))]
        ELSE IF ~Ok(resp.status)
        THEN [file |-> IF resp.status = 401 \/ resp.status = 403
                       THEN ClearCopilotToken(file) ELSE file,
              result |-> Threw(TranslateError(CompletionEndpointError(resp.status)))]
        ELSE IF suggestion = << >>
        THEN [file |-> file, result |-> Threw(TranslateError(PlainError(MsgNoSuggestion)))]
        ELSE [file |-> file, result |-> Returned(suggestion)]

----------------------------------------------------------------------------
(* Operations on the credential blob and the suggestion service.           *)

Idle == [pc |-> "idle", prompt |-> NoValue, accessToken |-> NoValue, sessionContext |-> NoValue]

\* The processes that share token.json.
Procs == {"A", "B"}

\* A process that is in no store operation.
ProcIdle ==
    [pc |-> "idle", op |-> "none", githubToken |-> NoValue, copilotToken |-> NoValue,
     expiresAt |-> NoExpiry, snapshot |-> AbsentFile, stale |-> FALSE]

TokenInit ==
    /\ tokenFile \in {AbsentFile, CorruptFile}
    /\ now = 0
    /\ calls = << >>
    /\ result = NoResult
    /\ lastOp = "init"
    /\ suggest = Idle
    /\ procs = [p \in Procs |-> ProcIdle]
    /\ issued = {}

\* Time passes, between two operations or while a fetch is awaited.
Tick ==
    /\ now < MaxSec * MsPerSec
    /\ now' = now + MsPerSec
    /\ UNCHANGED << tokenFile, calls, result, lastOp, suggest >>
    /\ UNCHANGED << procs, issued, sessionVars, pollVars >>

\* main() up to startRepl: with no identity token in the blob it runs the
\* device flow and saves the token pollForToken returned.
Startup(token) ==
    /\ lastOp = "init"
    /\ tokenFile' = IF Truthy(GetToken(tokenFile)) THEN tokenFile
                    ELSE SaveToken(tokenFile, token)
    /\ lastOp' = "main"
    /\ UNCHANGED << now, calls, result, suggest >>
    /\ UNCHANGED << procs, issued, sessionVars, pollVars >>

\* Between two operations something outside the program leaves token.json
\* unparseable (the case the storage functions catch around JSON.parse).
TokenFileDamaged ==
    /\ lastOp /= "init"
    /\ suggest.pc = "idle"
    /\ tokenFile.state = "json"
    /\ tokenFile' = CorruptFile
    /\ lastOp' = "damaged"
    /\ calls' = << >>
    /\ result' = NoResult
    /\ UNCHANGED << now, suggest >>
    /\ UNCHANGED << procs, issued, sessionVars, pollVars >>

\* saveToken(token): a new identity token is stored.
SaveTokenCall(token) ==
    /\ lastOp /= "init"
    /\ suggest.pc = "idle"
    /\ tokenFile' = SaveToken(tokenFile, token)
    /\ lastOp' = "saveToken"
    /\ calls' = << >>
    /\ result' = NoResult
    /\ UNCHANGED << now, suggest >>
    /\ UNCHANGED << procs, issued, sessionVars, pollVars >>

ClearTokenCall ==
    /\ lastOp /= "init"
    /\ suggest.pc = "idle"
    /\ tokenFile' = ClearToken(tokenFile)
    /\ lastOp' = "clearToken"
    /\ calls' = << >>
    /\ result' = NoResult
    /\ UNCHANGED << now, suggest >>
    /\ UNCHANGED << procs, issued, sessionVars, pollVars >>

ClearCopilotTokenCache ==
    /\ lastOp /= "init"
    /\ suggest.pc = "idle"
    /\ tokenFile' = ClearCopilotToken(tokenFile)
    /\ lastOp' = "clearCopilotTokenCache"
    /\ calls' = << >>
    /\ result' = NoResult
    /\ UNCHANGED << now, suggest >>
    /\ UNCHANGED << procs, issued, sessionVars, pollVars >>

\* getCommandSuggestion(prompt, accessToken, sessionContext) up to its first
\* await: the fetch of the token endpoint or, on a cache hit, of the completion.
SuggestStart(prompt, accessToken, sessionContext) ==
    /\ lastOp /= "init"
    /\ suggest.pc = "idle"
    /\ LET cached == CachedToken(tokenFile, now)
       IN  IF cached /= NoValue
           THEN /\ suggest' = [pc |-> "awaitCompletion", prompt |-> prompt,
                               accessToken |-> accessToken,
                               sessionContext |-> sessionContext]
                /\ calls' = << CompletionCall(cached, Messages(prompt, sessionContext)) >>
           ELSE /\ suggest' = [pc |-> "awaitToken", prompt |-> prompt,
                               accessToken |-> accessToken,
                               sessionContext |-> sessionContext]
                /\ calls' = << TokenCall(accessToken) >>
    /\ lastOp' = "getCommandSuggestion"
    /\ result' = NoResult
    /\ UNCHANGED << tokenFile, now >>
    /\ UNCHANGED << procs, issued, sessionVars, pollVars >>

\* The token endpoint answers: getCopilotToken throws, or stores the token and
\* getCommandSuggestion goes on to the fetch of the completion.
TokenAnswer(resp) ==
    /\ suggest.pc = "awaitToken"
    /\ LET got == RefreshToken(tokenFile, resp)
       IN  /\ tokenFile' = got.file
           /\ IF got.threw
              THEN /\ calls' = Answered(calls, resp.status)
                   /\ result' = Threw(TranslateError(got.error))
                   /\ suggest' = Idle
              ELSE /\ calls' = Append(Answered(calls, resp.status),
                                      CompletionCall(got.token,
                                                     Messages(suggest.prompt,
                                                              suggest.sessionContext)))
                   /\ result' = NoResult
                   /\ suggest' = [suggest EXCEPT !.pc = "awaitCompletion"]
    /\ issued' = IF Ok(resp.status) THEN issued \cup {<< suggest.accessToken, resp.token >>}
                 ELSE issued
    /\ UNCHANGED << now, lastOp >>
    /\ UNCHANGED << procs, sessionVars, pollVars >>

\* The completion endpoint answers: getCommandSuggestion returns or throws.
CompletionAnswer(resp) ==
    /\ suggest.pc = "awaitCompletion"
    /\ LET out == CompletionOutcome(tokenFile, resp)
       IN  /\ tokenFile' = out.file
           /\ result' = out.result
    /\ calls' = [Answered(calls, resp.status) EXCEPT
                     ![Len(calls)].reply = [hasChoice |-> resp.hasChoice,
                                            content |-> resp.content]]
    /\ suggest' = Idle
    /\ UNCHANGED << now, lastOp >>
    /\ UNCHANGED << procs, issued, sessionVars, pollVars >>

----------------------------------------------------------------------------
(* The storage functions called one by one (storage.ts).                   *)

\* Values a caller passes (or omits) as copilotToken.
CopilotTokenArgs == CopilotTokens \cup {NoValue, ""}

\* getToken with a catch block that lets the parse failure through.
GetTokenOutcomeRethrow(file) ==
    IF file.state = "corrupt" THEN Threw(PlainError(<< >>)) ELSE Returned(GetToken(file))

\* getToken(): every failure is caught and null returned.
GetTokenOutcome(file) == Returned(GetToken(file))

\* The storage getCopilotToken(): every failure is caught and null returned.
GetCopilotTokenOutcome(file) == Returned(GetStoredCopilotToken(file))

\* saveTokens(githubToken, copilotToken?, expiresAt?)
SaveTokensCall(githubToken, copilotToken, expiresAt) ==
    /\ lastOp /= "init"
    /\ suggest.pc = "idle"
    /\ tokenFile' = SaveTokens(tokenFile, githubToken, copilotToken, expiresAt)
    /\ lastOp' = "saveTokens"
    /\ calls' = << >>
    /\ result' = NoResult
    /\ UNCHANGED << now, suggest >>
    /\ UNCHANGED << procs, issued, sessionVars, pollVars >>

\* saveCopilotToken(token, expiresAt)
SaveCopilotTokenCall(token, expiresAt) ==
    /\ lastOp /= "init"
    /\ suggest.pc = "idle"
    /\ tokenFile' = SaveCopilotToken(tokenFile, token, expiresAt)
    /\ lastOp' = "saveCopilotToken"
    /\ calls' = << >>
    /\ result' = NoResult
    /\ UNCHANGED << now, suggest >>
    /\ UNCHANGED << procs, issued, sessionVars, pollVars >>

\* getToken()
GetTokenCall ==
    /\ lastOp /= "init"
    /\ suggest.pc = "idle"
    /\ result' = GetTokenOutcome(tokenFile)
    /\ lastOp' = "getToken"
    /\ calls' = << >>
    /\ UNCHANGED << tokenFile, now, suggest >>
    /\ UNCHANGED << procs, issued, sessionVars, pollVars >>

\* The storage getCopilotToken()
GetCopilotTokenCall ==
    /\ lastOp /= "init"
    /\ suggest.pc = "idle"
    /\ result' = GetCopilotTokenOutcome(tokenFile)
    /\ lastOp' = "getCopilotToken"
    /\ calls' = << >>
    /\ UNCHANGED << tokenFile, now, suggest >>
    /\ UNCHANGED << procs, issued, sessionVars, pollVars >>

----------------------------------------------------------------------------
(* Store operations of processes that share token.json: each operation is  *)
(* its reads of the file and, later, its write; `stale` records that       *)
(* another process has written since the operation's first read.           *)

\* The expiry the racing saveCopilotToken calls pass.
RaceExpiries == {[kind |-> "iso", t |-> MaxSec * MsPerSec]}

\* saveToken(token) up to the read of the blob in saveTokens.
SaveTokenRead(p, token) ==
    /\ procs[p].pc = "idle"
    /\ procs' = [procs EXCEPT ![p] =
                    [pc |-> "read", op |-> "saveToken", githubToken |-> token,
                     copilotToken |-> NoValue, expiresAt |-> NoExpiry,
                     snapshot |-> tokenFile, stale |-> FALSE]]
    /\ UNCHANGED << tokenFile, now, calls, result, lastOp, suggest >>
    /\ UNCHANGED << issued, sessionVars, pollVars >>

\* saveCopilotToken(token, expiresAt) up to the return of getToken(): without
\* an identity token it ends here.
SaveCopilotTokenGetToken(p, token, expiresAt) ==
    /\ procs[p].pc = "idle"
    /\ procs' = [procs EXCEPT ![p] =
                    [pc |-> IF Truthy(GetToken(tokenFile)) THEN "gotToken" ELSE "idle",
                     op |-> "saveCopilotToken", githubToken |-> GetToken(tokenFile),
                     copilotToken |-> token, expiresAt |-> expiresAt,
                     snapshot |-> AbsentFile, stale |-> FALSE]]
    /\ UNCHANGED << tokenFile, now, calls, result, lastOp, suggest >>
    /\ UNCHANGED << issued, sessionVars, pollVars >>

\* saveCopilotToken: the read of the blob in saveTokens.
SaveCopilotTokenRead(p) ==
    /\ procs[p].pc = "gotToken"
    /\ procs' = [procs EXCEPT ![p].pc = "read", ![p].snapshot = tokenFile]
    /\ UNCHANGED << tokenFile, now, calls, result, lastOp, suggest >>
    /\ UNCHANGED << issued, sessionVars, pollVars >>

\* clearCopilotToken() up to its read: with no file, or one that does not
\* parse, it ends here.
ClearCopilotTokenRead(p) ==
    /\ procs[p].pc = "idle"
    /\ procs' = [procs EXCEPT ![p] =
                    [pc |-> IF tokenFile.state = "json" THEN "read" ELSE "idle",
                     op |-> "clearCopilotToken", githubToken |-> NoValue,
                     copilotToken |-> NoValue, expiresAt |-> NoExpiry,
                     snapshot |-> tokenFile, stale |-> FALSE]]
    /\ UNCHANGED << tokenFile, now, calls, result, lastOp, suggest >>
    /\ UNCHANGED << issued, sessionVars, pollVars >>

\* A write computed from the file as it is at the time of the write.
WriteOfCurrent(proc, file) ==
    IF proc.op = "clearCopilotToken" THEN ClearCopilotToken(file)
    ELSE SaveTokens(file, proc.githubToken, proc.copilotToken, proc.expiresAt)

\* What the operation writes: computed from what it read, whatever the file
\* holds by now.
WriteOf(proc, file) ==
    IF proc.op = "clearCopilotToken" THEN ClearCopilotToken(proc.snapshot)
    ELSE SaveTokens(proc.snapshot, proc.githubToken, proc.copilotToken, proc.expiresAt)

\* fs.writeFileSync(TOKEN_FILE, ...) of the operation of process p.
ProcWrite(p) ==
    /\ procs[p].pc = "read"
    /\ tokenFile' = WriteOf(procs[p], tokenFile)
    /\ procs' = [q \in Procs |->
                    IF q = p THEN [procs[q] EXCEPT !.pc = "idle"]
                    ELSE IF procs[q].pc /= "idle" THEN [procs[q] EXCEPT !.stale = TRUE]
                    ELSE procs[q]]
    /\ UNCHANGED << now, calls, result, lastOp, suggest >>
    /\ UNCHANGED << issued, sessionVars, pollVars >>

----------------------------------------------------------------------------
(* The session log (session.ts).                                           *)

\* Most entries a session holds in the model.
MaxEntries == 2

\* Largest value Date.now() returns to the session code.
MaxClock == 1

\* maxOutputLength
MaxOutputLength == 500

\* The text of an output is kept run-length encoded: a sequence of runs, each
\* the string `s` repeated `n` >= 1 times. An input text has one-character runs.
Run(s, n) == [s |-> s, n |-> n]

\* `output` of an entry: undefined, or a string.
NoOutput == [defined |-> FALSE, text |-> << >>]

\* ''
EmptyOutput == [defined |-> TRUE, text |-> << >>]

\* 'a\nb'
ShortOutput == [defined |-> TRUE, text |-> << Run("a", 1), Run("\n", 1), Run("b", 1) >>]

\* An output one character longer than maxOutputLength, with a newline in it.
LongOutput ==
    [defined |-> TRUE, text |-> << Run("x", 2), Run("\n", 1), Run("y", MaxOutputLength - 2) >>]

\* Arguments of addSessionEntry: (prompt), (prompt, command, executed).
AddInputs ==
    {[prompt |-> "p1", command |-> NoValue, executed |-> FALSE],
     [prompt |-> "p2", command |-> "ls", executed |-> TRUE]}

\* Arguments of updateLastSessionEntry: (undefined, false, output) and
\* (command, executed, output).
UpdateInputs ==
    {[command |-> NoValue, executed |-> FALSE, output |-> ShortOutput],
     [command |-> "cat", executed |-> TRUE, output |-> LongOutput],
     [command |-> "cat", executed |-> TRUE, output |-> EmptyOutput]}

ClockValues == 0..MaxClock

SessionId == "session-1"

\* createSession() when Date.now() returns t.
CreateSession(t) ==
    [id |-> SessionId, createdAt |-> t, lastUpdatedAt |-> t, entries |-> << >>]

\* saveSession without its stamp of lastUpdatedAt.
SaveSessionNoStamp(s, t) == s

\* saveSession(session) when Date.now() returns t: the session it leaves
\* (which it also writes to the session file).
SaveSession(s, t) == [s EXCEPT !.lastUpdatedAt = t]

\* The entry is put in front of the others.
PushEntryFirst(s, prompt, command, executed, t) ==
    [s EXCEPT !.entries = << [timestamp |-> t, prompt |-> prompt, command |-> command,
                              executed |-> executed, output |-> NoOutput] >> \o @,
              !.lastUpdatedAt = t]

\* addSessionEntry up to its call of saveSession; Date.now() returns t.
PushEntry(s, prompt, command, executed, t) ==
    [s EXCEPT !.entries = Append(@, [timestamp |-> t, prompt |-> prompt,
                                     command |-> command, executed |-> executed,
                                     output |-> NoOutput]),
              !.lastUpdatedAt = t]

\* The update lands on the first entry.
UpdateFirst(s, command, executed, output, t) ==
    LET first == s.entries[1]
        updated == [first EXCEPT
                       !.command = IF command /= NoValue THEN command ELSE @,
                       !.executed = executed,
                       !.output = IF output.defined THEN output ELSE @]
    IN  [s EXCEPT !.entries[1] = updated, !.lastUpdatedAt = t]

\* updateLastSessionEntry on a session with entries, up to its call of
\* saveSession; Date.now() returns t.
UpdateLast(s, command, executed, output, t) ==
    LET n == Len(s.entries)
        last == s.entries[n]
        updated == [last EXCEPT
                       !.command = IF command /= NoValue THEN command ELSE @,
                       !.executed = executed,
                       !.output = IF output.defined THEN output ELSE @]
    IN  [s EXCEPT !.entries[n] = updated, !.lastUpdatedAt = t]

\* The keys JSON.stringify writes for an entry: a key whose value is undefined
\* is left out.
EntryKeys(e) ==
    {"timestamp", "prompt", "executed"}
        \cup (IF e.command /= NoValue THEN {"command"} ELSE {})
        \cup (IF e.output.defined THEN {"output"} ELSE {})

\* JSON.stringify that also leaves out an empty output.
StringifyEntryDropEmpty(e) ==
    [k \in EntryKeys(e) \ (IF e.output.text = << >> THEN {"output"} ELSE {}) |->
        CASE k = "timestamp" -> e.timestamp
          [] k = "prompt" -> e.prompt
          [] k = "executed" -> e.executed
          [] k = "command" -> e.command
          [] k = "output" -> e.output.text]

\* JSON.stringify of an entry: the JSON object, as a function of its keys.
StringifyEntry(e) ==
    [k \in EntryKeys(e) |->
        CASE k = "timestamp" -> e.timestamp
          [] k = "prompt" -> e.prompt
          [] k = "executed" -> e.executed
          [] k = "command" -> e.command
          [] k = "output" -> e.output.text]

\* JSON.stringify(session, null, 2): what the session file holds.
StringifySession(s) ==
    [id |-> s.id, createdAt |-> s.createdAt, lastUpdatedAt |-> s.lastUpdatedAt,
     entries |-> [i \in 1..Len(s.entries) |-> StringifyEntry(s.entries[i])]]

\* JSON.parse of an entry: a key the object does not hold reads as undefined.
ParseEntry(o) ==
    [timestamp |-> o["timestamp"],
     prompt |-> o["prompt"],
     command |-> IF "command" \in DOMAIN o THEN o["command"] ELSE NoValue,
     executed |-> o["executed"],
     output |-> IF "output" \in DOMAIN o THEN [defined |-> TRUE, text |-> o["output"]]
                ELSE NoOutput]

\* loadSession(sessionId) on the file of the session.
LoadSession(file) ==
    [id |-> file.id, createdAt |-> file.createdAt, lastUpdatedAt |-> file.lastUpdatedAt,
     entries |-> [i \in 1..Len(file.entries) |-> ParseEntry(file.entries[i])]]

Min(a, b) == IF a <= b THEN a ELSE b

Max(a, b) == IF a >= b THEN a ELSE b

\* Array.prototype.slice(start): the elements from the relative index `start`.
Slice(seq, start) ==
    LET len == Len(seq)
        from == IF start < 0 THEN Max(len + start, 0) ELSE Min(start, len)
    IN  SubSeq(seq, from + 1, len)

TruncationMarker == "... [output truncated]"

\* String.prototype.length
RECURSIVE TextLength(_)
TextLength(text) ==
    IF text = << >> THEN 0 ELSE Head(text).n + TextLength(Tail(text))

\* String.prototype.substring(0, k)
RECURSIVE Substring(_, _)
Substring(text, k) ==
    IF text = << >> \/ k <= 0 THEN << >>
    ELSE IF Head(text).n <= k
    THEN << Head(text) >> \o Substring(Tail(text), k - Head(text).n)
    ELSE << Run(Head(text).s, k) >>

\* limitedOutput.replace(/\n/g, '\n      ')
ReindentNewlines(text) ==
    [i \in 1..Len(text) |->
        IF text[i].s = "\n" THEN Run("\n      ", text[i].n) ELSE text[i]]

\* The output line with the cut one character late.
RenderOutputOffByOne(text) ==
    LET limited == IF TextLength(text) > MaxOutputLength
                   THEN Substring(text, MaxOutputLength + 1)
                            \o << Run(TruncationMarker, 1) >>
                   ELSE text
    IN  ReindentNewlines(limited)

\* The output line of a block: the text after '    Output: '.
RenderOutput(text) ==
    LET limited == IF TextLength(text) > MaxOutputLength
                   THEN Substring(text, MaxOutputLength) \o << Run(TruncationMarker, 1) >>
                   ELSE text
    IN  ReindentNewlines(limited)

\* The block getSessionContext appends for the entry at 0-based position `index`
\* of recentEntries.
RenderBlock(entry, index) ==
    LET hasCommand == Truthy(entry.command)
        hasOutput == hasCommand /\ entry.output.defined /\ entry.output.text /= << >>
    IN  [number |-> index + 1,
         prompt |-> entry.prompt,
         hasCommand |-> hasCommand,
         command |-> IF hasCommand THEN entry.command ELSE NoValue,
         executed |-> IF hasCommand THEN (IF entry.executed THEN "Yes" ELSE "No")
                      ELSE NoValue,
         hasOutput |-> hasOutput,
         output |-> IF hasOutput THEN RenderOutput(entry.output.text) ELSE << >>]

\* getSessionContext(session, limit): the header and the blocks of the string.
GetSessionContext(s, limit) ==
    LET recentEntries == Slice(s.entries, 0 - limit)
    IN  [called |-> TRUE, limit |-> limit, header |-> "Previous commands:",
         blocks |-> [i \in 1..Len(recentEntries) |-> RenderBlock(recentEntries[i], i - 1)]]

NoContext == [called |-> FALSE, limit |-> 0, header |-> "", blocks |-> << >>]

\* `limit: number = 5`
DefaultLimit == 5

\* Values of `limit`: none, one, as many as there can be entries, the default.
Limits == {0, 1, MaxEntries, DefaultLimit}

SessionInit ==
    /\ clock = 0
    /\ clockMonotone = TRUE
    /\ session = CreateSession(0)
    /\ sessionFile = StringifySession(CreateSession(0))
    /\ context = NoContext
    /\ sessionOp = "createSession"

\* addSessionEntry(session, prompt, command, executed): Date.now() returns t1
\* for the entry and t2 inside saveSession.
AddSessionEntry(prompt, command, executed, t1, t2) ==
    /\ Len(session.entries) < MaxEntries
    /\ session' = SaveSession(PushEntry(session, prompt, command, executed, t1), t2)
    /\ sessionFile' = StringifySession(session')
    /\ clock' = t2
    /\ clockMonotone' = (clockMonotone /\ clock <= t1 /\ t1 <= t2)
    /\ context' = NoContext
    /\ sessionOp' = "addSessionEntry"
    /\ UNCHANGED << tokenVars, pollVars >>

\* updateLastSessionEntry(session, command, executed, output): Date.now()
\* returns t1 in the function and t2 inside saveSession.
UpdateLastSessionEntry(command, executed, output, t1, t2) ==
    /\ IF Len(session.entries) > 0
       THEN /\ session' = SaveSession(UpdateLast(session, command, executed, output, t1),
                                      t2)
            /\ sessionFile' = StringifySession(session')
            /\ clock' = t2
            /\ clockMonotone' = (clockMonotone /\ clock <= t1 /\ t1 <= t2)
       ELSE UNCHANGED << session, sessionFile, clock, clockMonotone >>
    /\ context' = NoContext
    /\ sessionOp' = "updateLastSessionEntry"
    /\ UNCHANGED << tokenVars, pollVars >>

GetSessionContextCall(limit) ==
    /\ context' = GetSessionContext(session, limit)
    /\ sessionOp' = "getSessionContext"
    /\ UNCHANGED << session, sessionFile, clock, clockMonotone >>
    /\ UNCHANGED << tokenVars, pollVars >>

----------------------------------------------------------------------------
(* The caller of getCommandSuggestion (repl.ts), after the specification:  *)
(* the session context is built only when the session is non-empty.        *)

\* The beginning of the string getSessionContext returns: the header line and
\* the blank line after it, which every context starts with.
ContextText(ctx) == ctx.header \o "\n\n"

\* The sessionContext argument the caller passes for session `s`.
ReplContext(s) ==
    IF Len(s.entries) > 0 THEN ContextText(GetSessionContext(s, DefaultLimit))
    ELSE NoValue

\* One suggestion request of the interactive loop.
ReplSuggest(prompt, accessToken) ==
    SuggestStart(prompt, accessToken, ReplContext(session))

----------------------------------------------------------------------------
(* pollForToken (auth.ts).                                                 *)

\* Most attempts the model lets pollForToken make.
MaxPollAttempts == 4

\* `interval` of the device-code response, in seconds.
PollIntervals == {1, 5}

AccessTokens == {"gho_a", "gho_b"}

\* Answers of the token-exchange endpoint: status 0 is a transport failure,
\* bodyJson says whether response.json() parses the body.
NoPollResp == [status |-> -1, bodyJson |-> FALSE, access_token |-> NoValue]

PollResponses ==
    {[status |-> 0, bodyJson |-> FALSE, access_token |-> NoValue]}
    \cup {[status |-> s, bodyJson |-> TRUE, access_token |-> NoValue] : s \in {200, 400, 503}}
    \cup {[status |-> 200, bodyJson |-> FALSE, access_token |-> NoValue]}
    \cup {[status |-> 200, bodyJson |-> TRUE, access_token |-> t] : t \in AccessTokens}

\* A non-2xx answer escapes the loop instead of being caught.
PollOutcomeRethrow(resp) ==
    IF resp.status = 0 THEN "wait"
    ELSE IF ~Ok(resp.status) THEN "throw"
    ELSE IF ~resp.bodyJson THEN "wait"
    ELSE IF Truthy(resp.access_token) THEN "return"
    ELSE "wait"

\* The catch block retries without waiting.
PollOutcomeNoWait(resp) ==
    IF resp.status = 0 THEN "retry"
    ELSE IF ~Ok(resp.status) THEN "retry"
    ELSE IF ~resp.bodyJson THEN "retry"
    ELSE IF Truthy(resp.access_token) THEN "return"
    ELSE "wait"

\* What one pass of the loop body does with the answer of its fetch.
PollOutcome(resp) ==
    IF resp.status = 0 THEN "wait"
    ELSE IF ~Ok(resp.status) THEN "wait"
    ELSE IF ~resp.bodyJson THEN "wait"
    ELSE IF Truthy(resp.access_token) THEN "return"
    ELSE "wait"

Attempts(trace) == {i \in 1..Len(trace) : trace[i].ev = "attempt"}

PollInit ==
    /\ pollPc = "loop"
    /\ pollResp = NoPollResp
    /\ pollTrace = << >>
    /\ pollInFlight = 0
    /\ pollResult = NoValue
    /\ pollInterval \in PollIntervals

\* The loop issues the token-exchange request.
PollFetch ==
    /\ pollPc = "loop"
    /\ Cardinality(Attempts(pollTrace)) < MaxPollAttempts
    /\ pollPc' = "fetching"
    /\ pollInFlight' = pollInFlight + 1
    /\ pollTrace' = Append(pollTrace, [ev |-> "attempt", resp |-> NoPollResp, ms |-> 0])
    /\ UNCHANGED << pollResp, pollResult, pollInterval >>
    /\ UNCHANGED << tokenVars, sessionVars >>

\* The endpoint (or the transport) answers.
PollRespond(resp) ==
    /\ pollPc = "fetching"
    /\ pollPc' = "handling"
    /\ pollResp' = resp
    /\ pollInFlight' = pollInFlight - 1
    /\ pollTrace' = [pollTrace EXCEPT ![Len(pollTrace)].resp = resp]
    /\ UNCHANGED << pollResult, pollInterval >>
    /\ UNCHANGED << tokenVars, sessionVars >>

\* The rest of the loop body runs on the answer.
PollHandle ==
    /\ pollPc = "handling"
    /\ LET outcome == PollOutcome(pollResp)
       IN  /\ pollPc' = CASE outcome = "return" -> "returned"
                          [] outcome = "throw" -> "threw"
                          [] outcome = "retry" -> "loop"
                          [] OTHER -> "sleeping"
           /\ pollResult' = IF outcome = "return" THEN pollResp.access_token
                            ELSE pollResult
    /\ UNCHANGED << pollResp, pollTrace, pollInFlight, pollInterval >>
    /\ UNCHANGED << tokenVars, sessionVars >>

\* The timer of `interval * 1000` milliseconds fires.
PollTimer ==
    /\ pollPc = "sleeping"
    /\ pollPc' = "loop"
    /\ pollTrace' = Append(pollTrace, [ev |-> "wait", resp |-> NoPollResp,
                                       ms |-> pollInterval * MsPerSec])
    /\ UNCHANGED << pollResp, pollInFlight, pollResult, pollInterval >>
    /\ UNCHANGED << tokenVars, sessionVars >>

\* pollForToken has not been called.
PollIdle ==
    /\ pollPc = "idle"
    /\ pollResp = NoPollResp
    /\ pollTrace = << >>
    /\ pollInFlight = 0
    /\ pollResult = NoValue
    /\ pollInterval = 0

----------------------------------------------------------------------------
(* The specifications.                                                     *)

\* The credential blob, the broker and the suggestion service.
Init ==
    /\ TokenInit
    /\ SessionInit
    /\ PollIdle

Next ==
    \/ \E token \in GithubTokens : Startup(token)
    \/ ClearTokenCall
    \/ ClearCopilotTokenCache
    \/ \E token \in GithubTokens : SaveTokenCall(token)
    \/ TokenFileDamaged
    \/ Tick
    \/ \E prompt \in Prompts, accessToken \in GithubTokens,
          sessionContext \in SessionContexts :
          SuggestStart(prompt, accessToken, sessionContext)
    \/ \E resp \in TokenResponses : TokenAnswer(resp)
    \/ \E resp \in CompletionResponses : CompletionAnswer(resp)

Spec == Init /\ [][Next]_vars

\* The session log.
TokenIdle ==
    /\ tokenFile = AbsentFile
    /\ now = 0
    /\ calls = << >>
    /\ result = NoResult
    /\ lastOp = "init"
    /\ suggest = Idle
    /\ procs = [p \in Procs |-> ProcIdle]
    /\ issued = {}

SessionSpecInit ==
    /\ TokenIdle
    /\ SessionInit
    /\ PollIdle

SessionSpecNext ==
    \/ \E in \in AddInputs, t1 \in ClockValues, t2 \in ClockValues :
          AddSessionEntry(in.prompt, in.command, in.executed, t1, t2)
    \/ \E in \in UpdateInputs, t1 \in ClockValues, t2 \in ClockValues :
          UpdateLastSessionEntry(in.command, in.executed, in.output, t1, t2)
    \/ \E limit \in Limits : GetSessionContextCall(limit)

SessionSpec == SessionSpecInit /\ [][SessionSpecNext]_vars

\* pollForToken.
PollSpecInit ==
    /\ TokenIdle
    /\ SessionInit
    /\ PollInit

PollSpecNext ==
    \/ PollFetch
    \/ \E resp \in PollResponses : PollRespond(resp)
    \/ PollHandle
    \/ PollTimer

PollSpec == PollSpecInit /\ [][PollSpecNext]_vars

\* The event loop runs every continuation and fires every timer; whether the
\* endpoint answers is not up to the program.
PollFairSpec ==
    /\ PollSpec
    /\ WF_vars(PollFetch)
    /\ WF_vars(PollHandle)
    /\ WF_vars(PollTimer)

\* The interactive loop: entries are logged and suggestions requested with the
\* context of the session.
ReplSpecNext ==
    \/ \E token \in GithubTokens : Startup(token)
    \/ \E in \in AddInputs : AddSessionEntry(in.prompt, in.command, in.executed, clock, clock)
    \/ \E prompt \in Prompts, accessToken \in GithubTokens :
          ReplSuggest(prompt, accessToken)
    \/ \E resp \in TokenResponses : TokenAnswer(resp)
    \/ \E resp \in CompletionResponses : CompletionAnswer(resp)

ReplSpec == Init /\ [][ReplSpecNext]_vars

\* The storage functions, called in any order on a store that starts empty.
StoreInit ==
    /\ tokenFile = AbsentFile
    /\ now = 0
    /\ calls = << >>
    /\ result = NoResult
    /\ lastOp = "none"
    /\ suggest = Idle
    /\ procs = [p \in Procs |-> ProcIdle]
    /\ issued = {}

StoreSpecInit ==
    /\ StoreInit
    /\ SessionInit
    /\ PollIdle

StoreSpecNext ==
    \/ \E token \in GithubTokens : SaveTokenCall(token)
    \/ \E githubToken \in GithubTokens, copilotToken \in CopilotTokenArgs,
          expiresAt \in Expiries : SaveTokensCall(githubToken, copilotToken, expiresAt)
    \/ \E token \in CopilotTokens, expiresAt \in Expiries \ {NoExpiry} :
          SaveCopilotTokenCall(token, expiresAt)
    \/ ClearCopilotTokenCache
    \/ ClearTokenCall
    \/ TokenFileDamaged
    \/ GetTokenCall
    \/ GetCopilotTokenCall

StoreSpec == StoreSpecInit /\ [][StoreSpecNext]_vars

\* The caller hands getCommandSuggestion the identity token of the blob, the
\* one main() read with getToken() or saved with saveToken(); saveToken is
\* called again when the user has authenticated anew.
ReauthSpecNext ==
    \/ \E token \in GithubTokens : Startup(token)
    \/ \E token \in GithubTokens : SaveTokenCall(token)
    \/ Tick
    \/ \E prompt \in Prompts, accessToken \in GithubTokens \cap {GetToken(tokenFile)},
          sessionContext \in SessionContexts :
          SuggestStart(prompt, accessToken, sessionContext)
    \/ \E resp \in TokenResponses : TokenAnswer(resp)
    \/ \E resp \in CompletionResponses : CompletionAnswer(resp)

ReauthSpec == Init /\ [][ReauthSpecNext]_vars

\* Two processes run store operations on the same token.json.
RaceSpecNext ==
    \/ \E p \in Procs, token \in GithubTokens : SaveTokenRead(p, token)
    \/ \E p \in Procs, token \in CopilotTokens, expiresAt \in RaceExpiries :
          SaveCopilotTokenGetToken(p, token, expiresAt)
    \/ \E p \in Procs : SaveCopilotTokenRead(p)
    \/ \E p \in Procs : ClearCopilotTokenRead(p)
    \/ \E p \in Procs : ProcWrite(p)

RaceSpec == StoreSpecInit /\ [][RaceSpecNext]_vars

----------------------------------------------------------------------------
(* Properties of the service token broker and getCommandSuggestion.        *)

TokenCallsIn(log) == Cardinality({i \in 1..Len(log) : log[i].endpoint = "token"})

\* getCommandSuggestion has ended and this is the answer its last call got.
EndedWith(statuses) ==
    /\ suggest.pc = "idle"
    /\ lastOp = "getCommandSuggestion"
    /\ calls /= << >>
    /\ calls[Len(calls)].status \in statuses

\* The blob holds a service token and an expiry that is an instant after `now`.
HoldsFreshServiceToken ==
    /\ tokenFile.state = "json"
    /\ tokenFile.copilotToken /= NoValue
    /\ \/ tokenFile.copilotTokenExpiresAt.kind = "iso"
          /\ tokenFile.copilotTokenExpiresAt.t > now
       \/ tokenFile.copilotTokenExpiresAt.kind = "sec"
          /\ tokenFile.copilotTokenExpiresAt.t * 1000 > now

\* The blob holds neither a service token nor an expiry.
HoldsNoServiceToken ==
    \/ tokenFile.state /= "json"
    \/ /\ tokenFile.copilotToken = NoValue
       /\ tokenFile.copilotTokenExpiresAt.kind = "undefined"

\* C1: a call of getCopilotToken (the start of getCommandSuggestion) issues no
\* call to the token endpoint when the blob holds a service token and an
\* expiry strictly later than now, and goes straight to the completion with
\* that token; in every other case it issues exactly one call to the token
\* endpoint, and no further one whatever the answer.
C1_TokenCallsPerInvocation ==
    [][ /\ (suggest.pc = "idle" /\ suggest'.pc /= "idle") =>
              IF HoldsFreshServiceToken
              THEN /\ TokenCallsIn(calls') = 0
                   /\ calls'[1].auth = tokenFile.copilotToken
              ELSE /\ TokenCallsIn(calls') = 1
                   /\ suggest'.pc = "awaitToken"
        /\ suggest.pc /= "idle" => TokenCallsIn(calls') = TokenCallsIn(calls)
      ]_vars

\* A call served from the cache although the clock has moved since the token
\* was stored.
C1_Witness_CacheHit ==
    /\ suggest.pc = "awaitCompletion"
    /\ TokenCallsIn(calls) = 0
    /\ now > 0
    /\ tokenFile.copilotTokenExpiresAt.kind = "sec"

\* C2: once getCommandSuggestion has ended on a 401 or 403 of either
\* endpoint, the failure is raised and the blob holds no service token and no
\* expiry; the call of getCommandSuggestion that follows asks the token
\* endpoint first.
C2_AuthRejectionClearsServiceToken ==
    /\ [](EndedWith({401, 403}) => result.kind = "threw" /\ HoldsNoServiceToken)
    /\ [][ EndedWith({401, 403}) /\ suggest'.pc /= "idle" =>
              calls'[1].endpoint = "token" ]_vars

\* The completion endpoint rejected a token that had just been stored.
C2_Witness_RejectedAfterStore ==
    /\ EndedWith({401, 403})
    /\ Len(calls) = 2
    /\ calls[1].status = 200
    /\ GetToken(tokenFile) /= NoValue

\* The kind a status selects, and the kind a caller can read off the failure
\* it catches: every failure but TokenExpiredError is a plain Error, told apart
\* by its message alone.
KindForStatus(endpoint, status) ==
    IF status = 429 THEN "rate limited"
    ELSE IF status >= 500 THEN "service unavailable"
    ELSE IF endpoint = "completion" /\ status = 400 THEN "invalid request"
    ELSE "generic"

KindOfFailure(r) ==
    IF r.message \in {MsgTokenRateLimit, MsgUsageLimit} THEN "rate limited"
    ELSE IF r.message \in {MsgTokenUnavailable, MsgCopilotUnavailable}
    THEN "service unavailable"
    ELSE IF r.message = MsgInvalidRequest THEN "invalid request"
    ELSE "generic"

\* C3: a non-2xx answer other than 401/403 reaches the caller of
\* getCommandSuggestion as a failure of the kind its status selects.
C3_StatusKindReachesCaller ==
    \A s \in FailureStatuses \ {401, 403} :
        EndedWith({s}) =>
            /\ result.kind = "threw"
            /\ KindOfFailure(result) = KindForStatus(calls[Len(calls)].endpoint, s)

\* C4: a 401/403 of the token endpoint reaches the caller as the
\* TokenExpiredError of kind 'github' the broker threw, and a 401/403 of the
\* completion endpoint as the TokenExpiredError of kind 'copilot'.
C4_TokenExpiredReachesCaller ==
    EndedWith({401, 403}) =>
        /\ result.kind = "threw"
        /\ result.errClass = "TokenExpiredError"
        /\ IF calls[Len(calls)].endpoint = "token"
           THEN result.tokenType = "github" /\ result.message = MsgGithubExpired
           ELSE result.tokenType = "copilot" /\ result.message = MsgCopilotExpired

\* The completion endpoint answered 403 to a token taken from the cache.
C4_Witness_CopilotExpired ==
    /\ EndedWith({403})
    /\ Len(calls) = 1
    /\ calls[1].endpoint = "completion"
    /\ result.tokenType = "copilot"

\* C5: after a 2xx answer of the token endpoint the blob holds the token the
\* broker returned (the one the completion call carries) and an expiry,
\* whatever the blob held before.
C5_RefreshIsStored ==
    (/\ Len(calls) = 2
     /\ calls[1].endpoint = "token"
     /\ calls[1].status = 200) =>
        /\ tokenFile.state = "json"
        /\ tokenFile.copilotToken = calls[2].auth
        /\ tokenFile.copilotTokenExpiresAt.kind /= "undefined"

----------------------------------------------------------------------------
(* Properties of pollForToken.                                             *)

\* The answer is a 2xx whose body parses and holds a non-empty access_token.
Carries(resp) ==
    /\ resp.status >= 200
    /\ resp.status <= 299
    /\ resp.bodyJson
    /\ resp.access_token /= NoValue
    /\ resp.access_token /= ""

\* C6: at most one token-exchange request is in flight; attempts and waits
\* alternate, each wait lasting interval * 1000 ms; an answer that carries an
\* access token is the last event, and once pollForToken has returned, its
\* result is the access token of that answer.
C6_PollAttemptsAndWaits ==
    /\ pollInFlight \in {0, 1}
    /\ \A i \in 1..Len(pollTrace) :
          IF i % 2 = 1 THEN pollTrace[i].ev = "attempt"
          ELSE pollTrace[i].ev = "wait" /\ pollTrace[i].ms = pollInterval * 1000
    /\ \A i \in 1..Len(pollTrace) :
          Carries(pollTrace[i].resp) =>
              i = Len(pollTrace) /\ pollPc \in {"handling", "returned"}
    /\ pollPc = "returned" =>
          /\ pollTrace /= << >>
          /\ Carries(pollTrace[Len(pollTrace)].resp)
          /\ pollResult = pollTrace[Len(pollTrace)].resp.access_token

\* Three attempts without an access token (an authorization-pending answer, a
\* non-2xx answer, a transport failure), then the fourth returns its token.
C6_Witness_FourthAttemptReturns ==
    /\ pollPc = "returned"
    /\ Len(pollTrace) = 7
    /\ pollTrace[1].resp = [status |-> 200, bodyJson |-> TRUE, access_token |-> NoValue]
    /\ pollTrace[3].resp.status = 503
    /\ pollTrace[5].resp.status = 0
    /\ pollResult = "gho_b"

\* C7: pollForToken never throws, and returns only on an answer that carries
\* an access token; after an answer without one it comes back to the top of
\* its loop and (below the model's bound on attempts) issues the next request;
\* after an answer that carries one it returns.
C7_PollEndsOnlyWithToken ==
    /\ [](pollPc /= "threw")
    /\ [](pollPc = "returned" => Carries(pollResp))
    /\ [](pollPc = "handling" /\ ~Carries(pollResp) => <>(pollPc = "loop"))
    /\ [](pollPc = "loop" /\ Cardinality(Attempts(pollTrace)) < MaxPollAttempts =>
              <>(pollPc = "fetching"))
    /\ [](pollPc = "handling" /\ Carries(pollResp) => <>(pollPc = "returned"))

\* Still polling after as many failed attempts as the model allows, of every
\* kind: transport failure, non-2xx, unparseable body, no access token.
C7_Witness_StillPolling ==
    /\ pollPc = "loop"
    /\ Cardinality(Attempts(pollTrace)) = MaxPollAttempts
    /\ \E i, j, k, l \in Attempts(pollTrace) :
          /\ pollTrace[i].resp.status = 0
          /\ pollTrace[j].resp.status = 400
          /\ pollTrace[k].resp = [status |-> 200, bodyJson |-> FALSE,
                                  access_token |-> NoValue]
          /\ pollTrace[l].resp = [status |-> 200, bodyJson |-> TRUE,
                                  access_token |-> NoValue]

----------------------------------------------------------------------------
(* Properties of the session log.                                          *)

LastEntry == session.entries[Len(session.entries)]

\* C8 as stated: on a session with entries, lastUpdatedAt equals the timestamp
\* of the last entry.
C8_LastUpdatedIsLastTimestamp ==
    Len(session.entries) > 0 => session.lastUpdatedAt = LastEntry.timestamp

\* C8 as amended: on a session with entries, lastUpdatedAt is the value
\* Date.now() last returned (inside saveSession), which under a non-decreasing
\* clock is at least the timestamp of the last entry.
C8_LastUpdatedIsLastSave ==
    Len(session.entries) > 0 =>
        /\ session.lastUpdatedAt = clock
        /\ clockMonotone => session.lastUpdatedAt >= LastEntry.timestamp

\* After an update of the last entry, under a non-decreasing clock,
\* lastUpdatedAt is later than the timestamp of the last entry.
C8_Witness_UpdatedLater ==
    /\ Len(session.entries) > 0
    /\ clockMonotone
    /\ LastEntry.output.defined
    /\ session.lastUpdatedAt > LastEntry.timestamp

\* C9: under a non-decreasing clock the timestamps of the entries are
\* non-decreasing in entry order.
C9_TimestampsNonDecreasing ==
    clockMonotone =>
        \A i, j \in 1..Len(session.entries) :
            i < j => session.entries[i].timestamp <= session.entries[j].timestamp

\* Two entries with increasing timestamps, the first one updated before the
\* second was added.
C9_Witness_TwoEntries ==
    /\ clockMonotone
    /\ Len(session.entries) = 2
    /\ session.entries[1].timestamp < session.entries[2].timestamp
    /\ session.entries[1].output.defined

\* C10: getSessionContext(session, limit) renders min(limit, number of
\* entries) blocks: the last entries, oldest first, numbered from 1.
C10_ContextBlocks ==
    context.called =>
        LET n == Len(session.entries)
            k == IF context.limit <= n THEN context.limit ELSE n
        IN  /\ Len(context.blocks) = k
            /\ \A i \in 1..Len(context.blocks) :
                  /\ context.blocks[i].number = i
                  /\ i <= k => context.blocks[i].prompt = session.entries[n - k + i].prompt

\* The entry the i-th block of the context was rendered from: the blocks are
\* rendered from the last entries, in order.
EntryOfBlock(i) == session.entries[Len(session.entries) - Len(context.blocks) + i]

\* The text with the indentation after each newline taken out.
Unindent(text) ==
    [i \in 1..Len(text) |->
        IF text[i].s = "\n      " THEN [s |-> "\n", n |-> text[i].n] ELSE text[i]]

EndsWithMarker(text) ==
    text /= << >> /\ text[Len(text)] = [s |-> "... [output truncated]", n |-> 1]

\* `a` is the beginning of `b`, both run-length encoded.
RECURSIVE PrefixOf(_, _)
PrefixOf(a, b) ==
    IF a = << >> THEN TRUE
    ELSE IF b = << >> THEN FALSE
    ELSE /\ Head(a).s = Head(b).s
         /\ \/ Head(a).n = Head(b).n /\ PrefixOf(Tail(a), Tail(b))
            \/ Head(a).n < Head(b).n /\ Tail(a) = << >>

\* Characters of a run-length encoded text.
RECURSIVE CharCount(_)
CharCount(text) == IF text = << >> THEN 0 ELSE Head(text).n + CharCount(Tail(text))

\* The characters of the entry's output the block holds.
OutputShown(block) ==
    LET shown == Unindent(block.output)
    IN  IF EndsWithMarker(shown) THEN SubSeq(shown, 1, Len(shown) - 1) ELSE shown

\* The block holds the first 500 characters of `text` (newlines re-indented),
\* followed by the truncation marker exactly when `text` is longer.
ShowsOutput(block, text) ==
    /\ block.hasOutput
    /\ PrefixOf(OutputShown(block), text)
    /\ CharCount(OutputShown(block)) = (IF CharCount(text) <= 500 THEN CharCount(text) ELSE 500)
    /\ EndsWithMarker(block.output) <=> CharCount(text) > 500

StatesExecuted(block, entry) ==
    block.executed = (IF entry.executed THEN "Yes" ELSE "No")

\* C11 as stated: every block states whether its entry was executed; a block
\* of an entry whose output is present holds the first 500 characters of the
\* output, followed by the truncation marker exactly when the output is
\* longer; no block holds more than 500 characters of output.
C11_BlocksShowOutputAndExecuted ==
    context.called =>
        \A i \in 1..Len(context.blocks) :
            /\ StatesExecuted(context.blocks[i], EntryOfBlock(i))
            /\ EntryOfBlock(i).output.defined =>
                  ShowsOutput(context.blocks[i], EntryOfBlock(i).output.text)
            /\ CharCount(OutputShown(context.blocks[i])) <= 500

\* C11 as amended: a block of an entry with a non-empty command states
\* whether the entry was executed and, when the output is non-empty too, holds
\* its first 500 characters, followed by the truncation marker exactly when
\* the output is longer; a block of an entry without a command holds the
\* prompt alone; no block holds more than 500 characters of output.
C11_BlocksOfEntriesWithCommand ==
    context.called =>
        \A i \in 1..Len(context.blocks) :
            LET entry == EntryOfBlock(i)
                block == context.blocks[i]
                hasCommand == entry.command /= NoValue /\ entry.command /= ""
                hasOutput == hasCommand /\ entry.output.defined /\ entry.output.text /= << >>
            IN  /\ hasCommand => StatesExecuted(block, entry)
                /\ ~hasCommand => block.executed = NoValue /\ block.command = NoValue
                /\ hasOutput => ShowsOutput(block, entry.output.text)
                /\ ~hasOutput => ~block.hasOutput /\ block.output = << >>
                /\ CharCount(OutputShown(block)) <= 500

\* A context with a truncated block, and with a block of an entry that has an
\* output but no command.
C11_Witness_TruncatedAndBare ==
    /\ context.called
    /\ \E i, j \in 1..Len(context.blocks) :
          /\ EndsWithMarker(context.blocks[i].output)
          /\ CharCount(OutputShown(context.blocks[i])) = 500
          /\ EntryOfBlock(j).command = NoValue
          /\ EntryOfBlock(j).output.defined

----------------------------------------------------------------------------
(* Properties of the credential blob.                                      *)

\* C12: on a readable blob, saveToken leaves the service token and its expiry
\* as they were, and saveCopilotToken leaves the identity token as it was.
C12_WritesKeepOtherSlots ==
    [][ tokenFile.state = "json" =>
          /\ lastOp' = "saveToken" =>
                /\ tokenFile'.state = "json"
                /\ tokenFile'.copilotToken = tokenFile.copilotToken
                /\ tokenFile'.copilotTokenExpiresAt = tokenFile.copilotTokenExpiresAt
          /\ lastOp' = "saveCopilotToken" =>
                /\ tokenFile'.state = "json"
                /\ tokenFile'.githubToken = tokenFile.githubToken
      ]_vars

\* saveToken has replaced the identity token of a blob that holds a service
\* token (which only an earlier call can have stored).
C12_Witness_IdentityReplaced ==
    /\ lastOp = "saveToken"
    /\ tokenFile.githubToken = "gh2"
    /\ tokenFile.copilotToken = "cp1"
    /\ tokenFile.copilotTokenExpiresAt.kind = "iso"

\* C13: the blob holds a service token if and only if it holds an expiry.
C13_TokenIffExpiry ==
    tokenFile.state = "json" =>
        (tokenFile.copilotToken /= NoValue
            <=> tokenFile.copilotTokenExpiresAt.kind /= "undefined")

\* C14: getToken and the storage getCopilotToken return, and return absent
\* when the blob does not exist, does not parse or lacks the slot;
\* clearCopilotToken leaves a blob that does not parse as it is, without
\* raising.
C14_UnreadableBlobIsAbsent ==
    /\ [](lastOp = "getToken" =>
            /\ result.kind = "returned"
            /\ (tokenFile.state /= "json" \/ tokenFile.githubToken = NoValue) =>
                  result.value = NoValue)
    /\ [](lastOp = "getCopilotToken" =>
            /\ result.kind = "returned"
            /\ (\/ tokenFile.state /= "json"
                \/ tokenFile.copilotToken = NoValue
                \/ tokenFile.copilotTokenExpiresAt.kind = "undefined") =>
                  ~result.value.found)
    /\ [][ tokenFile.state = "corrupt" /\ lastOp' = "clearCopilotTokenCache" =>
              tokenFile' = tokenFile /\ result'.kind /= "threw" ]_vars

\* getToken has read a blob that does not parse.
C14_Witness_ReadOfUnparseable ==
    /\ lastOp = "getToken"
    /\ tokenFile.state = "corrupt"
    /\ result.kind = "returned"

----------------------------------------------------------------------------
(* Properties of the completion request.                                   *)

\* The completion request in flight.
Request == calls[Len(calls)].messages

\* C15: the completion request holds one user message, carrying the prompt,
\* placed last, and at most one system message before it; the system message
\* is there only when a non-empty session context was passed, and not for a
\* session without entries.
C15_RequestMessages ==
    suggest.pc = "awaitCompletion" =>
        /\ Len(Request) \in {1, 2}
        /\ Request[Len(Request)].role = "user"
        /\ Request[Len(Request)].content =
              "Generate a terminal command for: " \o suggest.prompt
                  \o "\nProvide only the command, no explanation."
        /\ Cardinality({i \in 1..Len(Request) : Request[i].role = "user"}) = 1
        /\ Len(Request) = 2 =>
              /\ Request[1].role = "system"
              /\ suggest.sessionContext /= NoValue
              /\ suggest.sessionContext /= ""
        /\ Len(session.entries) = 0 => Len(Request) = 1

\* A request that carries the context of a session with entries.
C15_Witness_WithContext ==
    /\ suggest.pc = "awaitCompletion"
    /\ Len(session.entries) > 0
    /\ Len(Request) = 2
    /\ Request[1].role = "system"

CompletionCallsIn(log) ==
    Cardinality({i \in 1..Len(log) : log[i].endpoint = "completion"})

\* The call has been answered, and not with a 2xx.
Failed(call) == call.status /= -1 /\ ~(call.status >= 200 /\ call.status <= 299)

\* C16: one call of getCommandSuggestion issues at most one call of the token
\* endpoint and at most one completion call, the token call first; the
\* completion call carries a service token, and follows a token call only if
\* that one was answered with a 2xx; a failed call is the last call issued.
C16_OneCallOfEachKind ==
    lastOp = "getCommandSuggestion" =>
        /\ TokenCallsIn(calls) <= 1
        /\ CompletionCallsIn(calls) <= 1
        /\ \A i \in 1..Len(calls) :
              /\ calls[i].endpoint = "token" => i = 1
              /\ calls[i].endpoint = "completion" =>
                    /\ calls[i].auth \in CopilotTokens
                    /\ i > 1 => calls[i - 1].status >= 200 /\ calls[i - 1].status <= 299
              /\ Failed(calls[i]) => i = Len(calls) /\ suggest.pc = "idle"

\* The token endpoint answered and the completion call failed: the call has
\* ended with two calls issued.
C16_Witness_CompletionFailed ==
    /\ lastOp = "getCommandSuggestion"
    /\ suggest.pc = "idle"
    /\ Len(calls) = 2
    /\ calls[1].status = 200
    /\ calls[2].status = 503

----------------------------------------------------------------------------
(* More properties of the session log.                                     *)

\* C17: a call of updateLastSessionEntry leaves the number of entries, every
\* entry but the last, and the prompt and timestamp of every entry as they
\* were; on a session without entries it leaves the session and the session
\* file as they were.
C17_UpdateTouchesLastEntryOnly ==
    [][ sessionOp' = "updateLastSessionEntry" =>
          /\ Len(session'.entries) = Len(session.entries)
          /\ \A i \in 1..Len(session.entries) :
                /\ i < Len(session.entries) => session'.entries[i] = session.entries[i]
                /\ session'.entries[i].prompt = session.entries[i].prompt
                /\ session'.entries[i].timestamp = session.entries[i].timestamp
          /\ Len(session.entries) = 0 => session' = session /\ sessionFile' = sessionFile
      ]_vars

\* The second of two entries has been updated, the first has not.
C17_Witness_SecondUpdated ==
    /\ sessionOp = "updateLastSessionEntry"
    /\ Len(session.entries) = 2
    /\ session.entries[2].output.defined
    /\ ~session.entries[1].output.defined

\* C18: the session file, reloaded with loadSession, equals the session in
\* memory in id, createdAt, lastUpdatedAt and every field of every entry.
C18_FileReloadsAsSession ==
    LET loaded == LoadSession(sessionFile)
    IN  /\ loaded.id = session.id
        /\ loaded.createdAt = session.createdAt
        /\ loaded.lastUpdatedAt = session.lastUpdatedAt
        /\ Len(loaded.entries) = Len(session.entries)
        /\ \A i \in 1..Len(session.entries) :
              /\ loaded.entries[i].timestamp = session.entries[i].timestamp
              /\ loaded.entries[i].prompt = session.entries[i].prompt
              /\ loaded.entries[i].command = session.entries[i].command
              /\ loaded.entries[i].executed = session.entries[i].executed
              /\ loaded.entries[i].output = session.entries[i].output

\* The file of a session with an entry that has no command and no output,
\* and with an entry whose output is the empty string.
C18_Witness_UndefinedAndEmpty ==
    /\ Len(session.entries) = 2
    /\ session.entries[1].command = NoValue
    /\ ~session.entries[1].output.defined
    /\ session.entries[2].output.defined
    /\ session.entries[2].output.text = << >>
    /\ "output" \in DOMAIN sessionFile.entries[2]
    /\ "command" \notin DOMAIN sessionFile.entries[1]

----------------------------------------------------------------------------
(* Properties of the returned command.                                     *)

Blank(text) == \A i \in 1..Len(text) : text[i] \in {" ", "\n", "\t"}

\* C19: getCommandSuggestion returns no empty and no whitespace-only command;
\* on a 2xx completion answer without a first choice, or whose content is
\* blank, it raises the 'no suggestion' failure, and on any other 2xx answer
\* it returns the content without the white space around it.
C19_NoBlankCommand ==
    /\ result.kind = "returned" => result.value /= << >> /\ ~Blank(result.value)
    /\ (EndedWith({200}) /\ calls[Len(calls)].endpoint = "completion") =>
          LET reply == calls[Len(calls)].reply
          IN  IF ~reply.hasChoice \/ Blank(reply.content)
              THEN /\ result.kind = "threw"
                   /\ result.errClass = "Error"
                   /\ result.message = MsgRephrase
              ELSE /\ result.kind = "returned"
                   /\ ~Blank(<< result.value[1] >>)
                   /\ ~Blank(<< result.value[Len(result.value)] >>)
                   /\ \E i \in 1..Len(reply.content) :
                         /\ result.value = SubSeq(reply.content, i, i + Len(result.value) - 1)
                         /\ Blank(SubSeq(reply.content, 1, i - 1))
                         /\ Blank(SubSeq(reply.content, i + Len(result.value),
                                         Len(reply.content)))

\* The completion endpoint answered 200 with a first choice of white space.
C19_Witness_BlankContent ==
    /\ EndedWith({200})
    /\ calls[Len(calls)].endpoint = "completion"
    /\ calls[Len(calls)].reply = [hasChoice |-> TRUE, content |-> << " " >>]
    /\ result.kind = "threw"

----------------------------------------------------------------------------
(* Properties of store operations that race.                               *)

ServiceSlots(file) == << file.copilotToken, file.copilotTokenExpiresAt >>

\* C20: a write stores the blob its operation computed from its own reads:
\* the slots the operation sets hold its arguments and every other slot what
\* the operation read, whatever another process has written since; when no
\* other process has written since the operation's first read, every other
\* slot holds what the file held just before the write (no update is lost).
C20_LastWriterWins ==
    [][ \A p \in Procs :
          (procs[p].pc = "read" /\ procs'[p].pc = "idle") =>
              /\ tokenFile'.state = "json"
              /\ procs[p].op = "saveToken" =>
                    /\ tokenFile'.githubToken = procs[p].githubToken
                    /\ ServiceSlots(tokenFile') = ServiceSlots(procs[p].snapshot)
                    /\ ~procs[p].stale => ServiceSlots(tokenFile') = ServiceSlots(tokenFile)
              /\ procs[p].op = "saveCopilotToken" =>
                    /\ ServiceSlots(tokenFile') =
                          << procs[p].copilotToken, procs[p].expiresAt >>
                    /\ tokenFile'.githubToken = procs[p].githubToken
                    /\ ~procs[p].stale => tokenFile'.githubToken = tokenFile.githubToken
              /\ procs[p].op = "clearCopilotToken" =>
                    /\ ServiceSlots(tokenFile') = << NoValue, NoExpiry >>
                    /\ tokenFile'.githubToken = procs[p].snapshot.githubToken
                    /\ ~procs[p].stale => tokenFile'.githubToken = tokenFile.githubToken
      ]_vars

\* A lost update: B stored a service token after A's saveToken had read the
\* blob, and A's write has put back the blob without it.
C20_Witness_LostUpdate ==
    /\ procs["A"].pc = "idle"
    /\ procs["A"].op = "saveToken"
    /\ procs["A"].stale
    /\ procs["B"].pc = "idle"
    /\ procs["B"].op = "saveCopilotToken"
    /\ procs["B"].githubToken /= NoValue
    /\ tokenFile.state = "json"
    /\ tokenFile.copilotToken = NoValue


----------------------------------------------------------------------------
(* C21: the cached service token and the identity token it was issued for. *)

\* getCommandSuggestion went from its start straight to the completion: the
\* service token of its one call is the one getCopilotToken took from the cache.
ServedFromCache == suggest.pc = "awaitCompletion" /\ Len(calls) = 1

\* C21: every service token that getCopilotToken(identityToken) returns from
\* the cache was issued by the token endpoint for that same identity token.
C21_CachedTokenOfSameIdentity ==
    ServedFromCache => << suggest.accessToken, calls[1].auth >> \in issued


----------------------------------------------------------------------------
(* C22: a blob with a service token has an identity token.                 *)

HoldsServiceToken(file) == file.state = "json" /\ file.copilotToken /= NoValue

HoldsIdentityToken(file) == file.state = "json" /\ Truthy(file.githubToken)

\* C22: in every state reached from an empty store, a credential blob that
\* holds a service token also holds an identity token; saveCopilotToken writes
\* nothing when no identity token is stored, and clearing the service token
\* never removes the identity token.
C22_ServiceTokenHasIdentityToken ==
    /\ [](HoldsServiceToken(tokenFile) => HoldsIdentityToken(tokenFile))
    /\ [][/\ (lastOp' = "saveCopilotToken" /\ ~HoldsIdentityToken(tokenFile))
               => tokenFile' = tokenFile
          /\ (lastOp' = "clearCopilotTokenCache" /\ HoldsIdentityToken(tokenFile))
               => /\ tokenFile'.githubToken = tokenFile.githubToken
                  /\ ~HoldsServiceToken(tokenFile')]_vars

\* saveCopilotToken has stored a service token next to the identity token.
C22_Witness_ServiceTokenSaved ==
    /\ lastOp = "saveCopilotToken"
    /\ HoldsServiceToken(tokenFile)
    /\ HoldsIdentityToken(tokenFile)

====
